---- MODULE Spec2Model ----
(***************************************************************************)
(* Model of LearnWebGPU/Main.cpp: the Application class (Initialize,       *)
(* MainLoop, Terminate, IsRunning) and the main function that drives it,   *)
(* native (non-Emscripten) build.  The WebGPU objects are modelled by the  *)
(* state of their handles, the buffers by their sizes and, for the uniform *)
(* buffer, by their bytes.                                                 *)
(***************************************************************************)
EXTENDS Integers, Sequences, FiniteSets, TLC

\* ---- bounds of the model ------------------------------------------------
MaxFrames == 2
MaxTime == 2
MaxFloats == 2
MaxIndices == 3

\* ---- program constants --------------------------------------------------
SizeofFloat == 4
SizeofUint16 == 2

\* ---- handles ------------------------------------------------------------
LongLived ==
  {"device", "queue", "surface", "pipeline", "pointBuffer", "indexBuffer",
   "uniformBuffer", "bindGroup", "layout", "bindGroupLayout"}

Handles == LongLived \cup {"instance", "adapter"}

HandleStates == {"null", "live", "released"}

SurfaceStatuses == {"Success", "Timeout", "Outdated", "Lost"}

GarbageBytes == {0, 205}

\* ---- struct MyUniforms --------------------------------------------------
MyUniforms_unpadded ==
  << [name |-> "color", count |-> 4], [name |-> "time", count |-> 1] >>

MyUniforms ==
  << [name |-> "color", count |-> 4],
     [name |-> "time", count |-> 1],
     [name |-> "_pad", count |-> 3] >>

RECURSIVE SizeofPrefix(_, _)
SizeofPrefix(layout, k) ==
  IF k = 0 THEN 0
  ELSE SizeofPrefix(layout, k - 1) + layout[k].count * SizeofFloat

Sizeof(layout) == SizeofPrefix(layout, Len(layout))

FieldIndex(layout, f) == CHOOSE k \in 1..Len(layout) : layout[k].name = f

OffsetOf(layout, f) == SizeofPrefix(layout, FieldIndex(layout, f) - 1)

\* ---- float and byte encodings -------------------------------------------
RECURSIVE Pow2(_)
Pow2(e) == IF e = 0 THEN 1 ELSE 2 * Pow2(e - 1)

RECURSIVE FloorLog2(_)
FloorLog2(t) == IF t < 2 THEN 0 ELSE 1 + FloorLog2(t \div 2)

\* IEEE-754 binary32 bit pattern of the whole number t (0 <= t < 2^23)
FloatBits(t) ==
  IF t = 0 THEN 0
  ELSE LET e == FloorLog2(t)
       IN  (127 + e) * Pow2(23) + (t - Pow2(e)) * Pow2(23 - e)

\* 0.4f = 0x3ECCCCCD
FloatBits_0_4 == 1053609165

LE4(w) ==
  << w % 256, (w \div 256) % 256, (w \div 65536) % 256, (w \div 16777216) % 256 >>

RECURSIVE Repeat(_, _)
Repeat(b, k) == IF k = 0 THEN << >> ELSE << b >> \o Repeat(b, k - 1)

ColorBytes ==
  LE4(FloatBits(0)) \o LE4(FloatBits(1)) \o LE4(FloatBits_0_4) \o LE4(FloatBits(1))

FieldBytes(f, g) ==
  CASE f = "color" -> ColorBytes
    [] f = "time" -> LE4(FloatBits(1))
    [] OTHER -> Repeat(g, 3 * SizeofFloat)

RECURSIVE StructBytes(_, _, _)
StructBytes(layout, k, g) ==
  IF k = 0 THEN << >>
  ELSE StructBytes(layout, k - 1, g) \o FieldBytes(layout[k].name, g)

\* queue.writeBuffer(buffer, offset, data, size) on the bytes of a buffer
WriteBuffer(buf, offset, data, size) ==
  [i \in 1..Len(buf) |->
     IF i > offset /\ i <= offset + size THEN data[i - offset] ELSE buf[i]]

\* bufferDesc.size = (bufferDesc.size + 3) & ~3
RoundUp4_none(size) == size

RoundUp4(size) == (size + 3) - ((size + 3) % 4)

\* ---- GetRequiredLimits --------------------------------------------------
RequiredLimits_oneAttribute ==
  [maxVertexAttributes |-> 1,
   maxVertexBuffers |-> 1,
   maxBufferSize |-> 15 * 5 * SizeofFloat,
   maxVertexBufferArrayStride |-> 5 * SizeofFloat,
   maxInterStageShaderComponents |-> 3,
   maxBindGroups |-> 1,
   maxUniformBuffersPerShaderStage |-> 1,
   maxUniformBufferBindingSize |-> 16 * 4]

GetRequiredLimits ==
  [maxVertexAttributes |-> 2,
   maxVertexBuffers |-> 1,
   maxBufferSize |-> 15 * 5 * SizeofFloat,
   maxVertexBufferArrayStride |-> 5 * SizeofFloat,
   maxInterStageShaderComponents |-> 3,
   maxBindGroups |-> 1,
   maxUniformBuffersPerShaderStage |-> 1,
   maxUniformBufferBindingSize |-> 16 * 4]

NoLimits ==
  [maxVertexAttributes |-> 0,
   maxVertexBuffers |-> 0,
   maxBufferSize |-> 0,
   maxVertexBufferArrayStride |-> 0,
   maxInterStageShaderComponents |-> 0,
   maxBindGroups |-> 0,
   maxUniformBuffersPerShaderStage |-> 0,
   maxUniformBufferBindingSize |-> 0]

\* size in bytes of a vertex format
VertexFormatSize(fmt) ==
  CASE fmt = "Float32x2" -> 2 * SizeofFloat
    [] fmt = "Float32x3" -> 3 * SizeofFloat

\* the vertex state, the bind group layout and the pipeline layout that
\* InitializePipeline describes
PipelineConfig ==
  [vertexAttribs |->
     << [shaderLocation |-> 0, format |-> "Float32x2", offset |-> 0],
        [shaderLocation |-> 1, format |-> "Float32x3", offset |-> 2 * SizeofFloat] >>,
   arrayStride |-> 5 * SizeofFloat,
   bufferCount |-> 1,
   bindGroupLayoutCount |-> 1]

BindingLayout ==
  [binding |-> 0,
   visibility |-> {"Vertex", "Fragment"},
   type |-> "Uniform",
   minBindingSize |-> Sizeof(MyUniforms)]

\* ---- main and the per-frame decisions -----------------------------------
AfterInitialize_ignored(ok) == "M_isRunning"

\* if (!app.Initialize()) return 1;
AfterInitialize(ok) == IF ok THEN "M_isRunning" ELSE "M_return1"

GetNextSurfaceTextureView_unchecked(status) == "view"

\* the texture view GetNextSurfaceTextureView returns for a status
GetNextSurfaceTextureView(status) ==
  IF status # "Success" THEN "nullptr" ELSE "view"

TimeWriteOffset_first == OffsetOf(MyUniforms, "color")

\* offsetof(MyUniforms, time)
TimeWriteOffset == OffsetOf(MyUniforms, "time")

TerminateOrder_deviceFirst ==
  << <<"device", "release">>,
     <<"bindGroup", "release">>,
     <<"layout", "release">>,
     <<"bindGroupLayout", "release">>,
     <<"uniformBuffer", "release">>,
     <<"pointBuffer", "release">>,
     <<"indexBuffer", "release">>,
     <<"pipeline", "release">>,
     <<"surface", "unconfigure">>,
     <<"queue", "release">>,
     <<"surface", "release">> >>

\* the calls of Terminate, in order
TerminateOrder ==
  << <<"bindGroup", "release">>,
     <<"layout", "release">>,
     <<"bindGroupLayout", "release">>,
     <<"uniformBuffer", "release">>,
     <<"pointBuffer", "release">>,
     <<"indexBuffer", "release">>,
     <<"pipeline", "release">>,
     <<"surface", "unconfigure">>,
     <<"queue", "release">>,
     <<"surface", "release">>,
     <<"device", "release">> >>

\* ---- state ----------------------------------------------------------------
VARIABLES
  pc,                \* position of the program
  handle,            \* state of every handle
  surfaceConfigured, \* whether the surface is configured
  misuse,            \* handles that were passed to an API call while not live
  ops,               \* Application operations main has performed, in order
  mainReturn,        \* value main returned, "none" before it returns
  initResult,        \* value Initialize returned, "none" before it returns
  stepFailed,        \* initialization steps that failed
  frames,            \* number of MainLoop calls so far
  frame,             \* events of the current MainLoop call, in order
  texStatus,         \* status of the surface texture of the current MainLoop call
  clock,             \* glfwGetTime, in whole seconds
  uniformData,       \* bytes of the uniform buffer, << >> when there is none
  uploaded,          \* bytes InitializeBuffers uploaded to the uniform buffer
  lastWrite,         \* offset and size of the last writeBuffer of MainLoop
  pointCount,        \* pointData.size()
  indexCount,        \* indexData.size()
  bufSize,           \* size of the point, index and uniform buffers
  upload,            \* bytes read from and held by the vectors uploaded
  requiredLimits,    \* limits requested from the device
  pipelineCfg,       \* vertex state and layouts of the render pipeline
  bindingLayout,     \* entry of the bind group layout
  binding,           \* entry of the bind group
  released,          \* calls Terminate has made, in order
  tpos               \* next call of Terminate

hvars == << handle, surfaceConfigured >>
mvars == << ops, mainReturn, initResult, stepFailed >>
fvars == << frames, frame, texStatus, clock, lastWrite >>
uvars == << uniformData, uploaded >>
bvars == << pointCount, indexCount, bufSize, upload >>
cvars == << requiredLimits, pipelineCfg, bindingLayout, binding >>
tvars == << released, tpos >>

vars == << pc, misuse, hvars, mvars, fvars, uvars, bvars, cvars, tvars >>

Live(h) == handle[h] = "live"

\* the handle an object created from parent gets
Create(parent) == IF Live(parent) THEN "live" ELSE "null"

\* the handles the step at the current position passes to API calls
CurrentUses ==
  CASE pc = "I_surface" -> {"instance"}
    [] pc = "I_requestAdapter" -> {"instance", "surface"}
    [] pc = "I_requiredLimits" -> {"adapter"}
    [] pc = "I_requestDevice" -> {"adapter"}
    [] pc = "I_errorCallback" -> {"device"}
    [] pc = "I_getQueue" -> {"device"}
    [] pc = "I_configure" -> {"surface", "adapter", "device"}
    [] pc = "P_shader" -> {"device"}
    [] pc = "P_bindGroupLayout" -> {"device"}
    [] pc = "P_layout" -> {"device", "bindGroupLayout"}
    [] pc = "P_pipeline" -> {"device", "layout"}
    [] pc = "B_point" -> {"device", "queue"}
    [] pc = "B_index" -> {"device", "queue"}
    [] pc = "B_uniform" -> {"device", "queue"}
    [] pc = "G_bindGroup" -> {"device", "uniformBuffer", "bindGroupLayout"}
    [] pc = "L_write" -> {"queue", "uniformBuffer"}
    [] pc = "L_acquire" -> {"surface"}
    [] pc = "L_encoder" -> {"device"}
    [] pc = "L_draw" -> {"pipeline", "pointBuffer", "indexBuffer", "bindGroup"}
    [] pc = "L_submit" -> {"queue"}
    [] pc = "L_present" -> {"surface", "device"}
    [] pc = "Terminate" ->
         IF tpos <= Len(TerminateOrder) THEN {TerminateOrder[tpos][1]} ELSE {}
    [] OTHER -> {}

Bad == {h \in CurrentUses : ~Live(h)}

\* the index upload reads past the end of indexData
OverRead ==
  pc = "B_index" /\ RoundUp4(indexCount * SizeofUint16) > indexCount * SizeofUint16

\* the step at the current position has undefined behaviour
UBPending == Bad # {} \/ OverRead

\* the step completes and the program goes on at position to
Goto(to) == pc' = to /\ misuse' = misuse \cup Bad

Init ==
  /\ pc = "main"
  /\ handle = [h \in Handles |-> "null"]
  /\ surfaceConfigured = FALSE
  /\ misuse = {}
  /\ ops = << >>
  /\ mainReturn = "none"
  /\ initResult = "none"
  /\ stepFailed = {}
  /\ frames = 0
  /\ frame = << >>
  /\ texStatus = "none"
  /\ clock = 0
  /\ uniformData = << >>
  /\ uploaded = << >>
  /\ lastWrite = [offset |-> 0, size |-> 0]
  /\ pointCount = 0
  /\ indexCount = 0
  /\ bufSize = [point |-> 0, index |-> 0, uniform |-> 0]
  /\ upload = [pointRead |-> 0, pointHeld |-> 0, indexRead |-> 0, indexHeld |-> 0]
  /\ requiredLimits = NoLimits
  /\ pipelineCfg = [vertexAttribs |-> << >>, arrayStride |-> 0, bufferCount |-> 0,
                    bindGroupLayoutCount |-> 0]
  /\ bindingLayout = [binding |-> 0, visibility |-> {}, type |-> "Undefined",
                      minBindingSize |-> 0]
  /\ binding = [binding |-> 0, offset |-> 0, size |-> 0]
  /\ released = << >>
  /\ tpos = 1

\* ---- main, up to the call of Initialize -----------------------------------
Main_callInitialize ==
  /\ pc = "main"
  /\ Goto("I_createInstance")
  /\ ops' = Append(ops, "Initialize")
  /\ UNCHANGED << hvars, mainReturn, initResult, stepFailed, fvars, uvars, bvars,
                  cvars, tvars >>

\* ---- Application::Initialize ----------------------------------------------
Initialize_createInstance ==
  /\ pc = "I_createInstance"
  /\ \E ok \in BOOLEAN :
       IF ok
       THEN /\ Goto("I_surface")
            /\ handle' = [handle EXCEPT !["instance"] = "live"]
            /\ UNCHANGED << ops, initResult, stepFailed >>
       ELSE /\ Goto(AfterInitialize(FALSE))
            /\ ops' = Append(ops, "Initialize=false")
            /\ initResult' = "false"
            /\ stepFailed' = stepFailed \cup {"instance"}
            /\ UNCHANGED handle
  /\ UNCHANGED << surfaceConfigured, mainReturn, fvars, uvars, bvars, cvars, tvars >>

Initialize_getSurface ==
  /\ pc = "I_surface"
  /\ Goto("I_requestAdapter")
  /\ handle' = [handle EXCEPT !["surface"] = "live"]
  /\ UNCHANGED << surfaceConfigured, mvars, fvars, uvars, bvars, cvars, tvars >>

Initialize_requestAdapter ==
  /\ pc = "I_requestAdapter"
  /\ Goto("I_requiredLimits")
  /\ \E ok \in BOOLEAN :
       /\ handle' = [handle EXCEPT !["adapter"] = IF ok THEN "live" ELSE "null",
                                   !["instance"] = "released"]
       /\ stepFailed' = IF ok THEN stepFailed ELSE stepFailed \cup {"adapter"}
  /\ UNCHANGED << surfaceConfigured, ops, mainReturn, initResult, fvars, uvars,
                  bvars, cvars, tvars >>

Initialize_getRequiredLimits ==
  /\ pc = "I_requiredLimits"
  /\ Goto("I_requestDevice")
  /\ requiredLimits' = GetRequiredLimits
  /\ UNCHANGED << hvars, mvars, fvars, uvars, bvars, pipelineCfg, bindingLayout,
                  binding, tvars >>

Initialize_requestDevice ==
  /\ pc = "I_requestDevice"
  /\ Goto("I_errorCallback")
  /\ \E ok \in BOOLEAN :
       LET got == ok /\ Live("adapter") IN
       /\ handle' = [handle EXCEPT !["device"] = IF got THEN "live" ELSE "null"]
       /\ stepFailed' = IF got THEN stepFailed ELSE stepFailed \cup {"device"}
  /\ UNCHANGED << surfaceConfigured, ops, mainReturn, initResult, fvars, uvars,
                  bvars, cvars, tvars >>

Initialize_setUncapturedErrorCallback ==
  /\ pc = "I_errorCallback"
  /\ Goto("I_getQueue")
  /\ UNCHANGED << hvars, mvars, fvars, uvars, bvars, cvars, tvars >>

Initialize_getQueue ==
  /\ pc = "I_getQueue"
  /\ Goto("I_configure")
  /\ handle' = [handle EXCEPT !["queue"] = Create("device")]
  /\ UNCHANGED << surfaceConfigured, mvars, fvars, uvars, bvars, cvars, tvars >>

Initialize_configureSurface ==
  /\ pc = "I_configure"
  /\ Goto("P_shader")
  /\ surfaceConfigured' = (Live("surface") /\ Live("device"))
  /\ handle' = [handle EXCEPT !["adapter"] = IF Live("adapter") THEN "released" ELSE @]
  /\ UNCHANGED << mvars, fvars, uvars, bvars, cvars, tvars >>

\* ---- Application::InitializePipeline --------------------------------------
InitializePipeline_loadShaderModule ==
  /\ pc = "P_shader"
  /\ \E ok \in BOOLEAN :
       IF ok
       THEN Goto("P_bindGroupLayout") /\ UNCHANGED stepFailed
       ELSE Goto("exited") /\ stepFailed' = stepFailed \cup {"shader"}
  /\ UNCHANGED << hvars, ops, mainReturn, initResult, fvars, uvars, bvars, cvars,
                  tvars >>

InitializePipeline_createBindGroupLayout ==
  /\ pc = "P_bindGroupLayout"
  /\ Goto("P_layout")
  /\ bindingLayout' = BindingLayout
  /\ handle' = [handle EXCEPT !["bindGroupLayout"] = Create("device")]
  /\ UNCHANGED << surfaceConfigured, mvars, fvars, uvars, bvars, requiredLimits,
                  pipelineCfg, binding, tvars >>

InitializePipeline_createPipelineLayout ==
  /\ pc = "P_layout"
  /\ Goto("P_pipeline")
  /\ handle' = [handle EXCEPT !["layout"] = Create("device")]
  /\ UNCHANGED << surfaceConfigured, mvars, fvars, uvars, bvars, cvars, tvars >>

InitializePipeline_createRenderPipeline ==
  /\ pc = "P_pipeline"
  /\ Goto("B_load")
  /\ pipelineCfg' = PipelineConfig
  /\ handle' = [handle EXCEPT !["pipeline"] = Create("device")]
  /\ UNCHANGED << surfaceConfigured, mvars, fvars, uvars, bvars, requiredLimits,
                  bindingLayout, binding, tvars >>

\* ---- Application::InitializeBuffers ---------------------------------------
InitializeBuffers_loadGeometry ==
  /\ pc = "B_load"
  /\ \E ok \in BOOLEAN :
       IF ok
       THEN /\ Goto("B_point")
            /\ \E m \in 0..MaxFloats, n \in 0..MaxIndices :
                 pointCount' = m /\ indexCount' = n
            /\ UNCHANGED stepFailed
       ELSE /\ Goto("exited")
            /\ stepFailed' = stepFailed \cup {"geometry"}
            /\ UNCHANGED << pointCount, indexCount >>
  /\ UNCHANGED << hvars, ops, mainReturn, initResult, fvars, uvars, bufSize, upload,
                  cvars, tvars >>

InitializeBuffers_pointBuffer ==
  /\ pc = "B_point"
  /\ Goto("B_index")
  /\ LET size == pointCount * SizeofFloat IN
       /\ bufSize' = [bufSize EXCEPT !.point = size]
       /\ upload' = [upload EXCEPT !.pointRead = size,
                                   !.pointHeld = pointCount * SizeofFloat]
  /\ handle' = [handle EXCEPT !["pointBuffer"] = Create("device")]
  /\ UNCHANGED << surfaceConfigured, mvars, fvars, uvars, pointCount, indexCount,
                  cvars, tvars >>

InitializeBuffers_indexBuffer ==
  /\ pc = "B_index"
  /\ Goto("B_uniform")
  /\ LET size == RoundUp4(indexCount * SizeofUint16) IN
       /\ bufSize' = [bufSize EXCEPT !.index = size]
       /\ upload' = [upload EXCEPT !.indexRead = size,
                                   !.indexHeld = indexCount * SizeofUint16]
  /\ handle' = [handle EXCEPT !["indexBuffer"] = Create("device")]
  /\ UNCHANGED << surfaceConfigured, mvars, fvars, uvars, pointCount, indexCount,
                  cvars, tvars >>

InitializeBuffers_uniformBuffer ==
  /\ pc = "B_uniform"
  /\ Goto("G_bindGroup")
  /\ bufSize' = [bufSize EXCEPT !.uniform = Sizeof(MyUniforms)]
  /\ handle' = [handle EXCEPT !["uniformBuffer"] = Create("device")]
  /\ \E g \in GarbageBytes :
       LET uniforms == StructBytes(MyUniforms, Len(MyUniforms), g) IN
       IF Live("device") /\ Live("queue")
       THEN /\ uploaded' = uniforms
            /\ uniformData' = WriteBuffer(Repeat(0, Sizeof(MyUniforms)), 0, uniforms,
                                          Sizeof(MyUniforms))
       ELSE UNCHANGED uvars
  /\ UNCHANGED << surfaceConfigured, mvars, fvars, pointCount, indexCount, upload,
                  cvars, tvars >>

\* ---- Application::InitializeBindGroups ------------------------------------
InitializeBindGroups ==
  /\ pc = "G_bindGroup"
  /\ Goto("I_return")
  /\ binding' = [binding |-> 0, offset |-> 0, size |-> Sizeof(MyUniforms)]
  /\ handle' = [handle EXCEPT !["bindGroup"] = Create("device")]
  /\ UNCHANGED << surfaceConfigured, mvars, fvars, uvars, bvars, requiredLimits,
                  pipelineCfg, bindingLayout, tvars >>

Initialize_returnTrue ==
  /\ pc = "I_return"
  /\ Goto(AfterInitialize(TRUE))
  /\ ops' = Append(ops, "Initialize=true")
  /\ initResult' = "true"
  /\ UNCHANGED << hvars, mainReturn, stepFailed, fvars, uvars, bvars, cvars, tvars >>

\* ---- main: while (app.IsRunning()) app.MainLoop(); ------------------------
Main_IsRunning ==
  /\ pc = "M_isRunning"
  /\ \E shouldClose \in BOOLEAN :
       /\ frames = MaxFrames => shouldClose
       /\ IF ~shouldClose
          THEN Goto("L_write") /\ ops' = Append(ops, "IsRunning=true")
          ELSE Goto("M_terminate") /\ ops' = Append(ops, "IsRunning=false")
  /\ UNCHANGED << hvars, mainReturn, initResult, stepFailed, fvars, uvars, bvars,
                  cvars, tvars >>

Main_return1 ==
  /\ pc = "M_return1"
  /\ Goto("done")
  /\ mainReturn' = "return 1"
  /\ UNCHANGED << hvars, ops, initResult, stepFailed, fvars, uvars, bvars, cvars,
                  tvars >>

\* ---- Application::MainLoop ------------------------------------------------
MainLoop_writeBuffer ==
  /\ pc = "L_write"
  /\ Goto("L_acquire")
  /\ ops' = Append(ops, "MainLoop")
  /\ frames' = frames + 1
  /\ frame' = << >>
  /\ texStatus' = "none"
  /\ lastWrite' = [offset |-> TimeWriteOffset, size |-> SizeofFloat]
  /\ \E t \in clock..MaxTime :
       /\ clock' = t
       /\ uniformData' =
            IF Live("queue") /\ Live("uniformBuffer")
            THEN WriteBuffer(uniformData, TimeWriteOffset, LE4(FloatBits(t)),
                             SizeofFloat)
            ELSE uniformData
  /\ UNCHANGED << hvars, mainReturn, initResult, stepFailed, uploaded, bvars, cvars,
                  tvars >>

MainLoop_GetNextSurfaceTextureView ==
  /\ pc = "L_acquire"
  /\ \E status \in SurfaceStatuses :
       /\ texStatus' = status
       /\ IF GetNextSurfaceTextureView(status) = "nullptr"
          THEN Goto("M_isRunning")
          ELSE Goto("L_encoder")
  /\ frame' = Append(frame, "acquire")
  /\ UNCHANGED << hvars, mvars, frames, clock, lastWrite, uvars, bvars, cvars, tvars >>

\* a step of MainLoop that only adds an event to the frame
FrameStep(from, to, event) ==
  /\ pc = from
  /\ Goto(to)
  /\ frame' = Append(frame, event)
  /\ UNCHANGED << hvars, mvars, frames, texStatus, clock, lastWrite, uvars, bvars,
                  cvars, tvars >>

MainLoop_createCommandEncoder == FrameStep("L_encoder", "L_begin", "createEncoder")

MainLoop_beginRenderPass == FrameStep("L_begin", "L_draw", "beginRenderPass")

MainLoop_drawIndexed == FrameStep("L_draw", "L_end", "drawIndexed")

MainLoop_endRenderPass == FrameStep("L_end", "L_finish", "endRenderPass")

MainLoop_finish == FrameStep("L_finish", "L_submit", "finish")

MainLoop_submit == FrameStep("L_submit", "L_present", "submit")

MainLoop_present == FrameStep("L_present", "M_isRunning", "present")

\* ---- Application::Terminate -----------------------------------------------
Terminate_call ==
  /\ pc = "M_terminate"
  /\ Goto("Terminate")
  /\ ops' = Append(ops, "Terminate")
  /\ tpos' = 1
  /\ UNCHANGED << hvars, mainReturn, initResult, stepFailed, fvars, uvars, bvars,
                  cvars, released >>

Terminate_release ==
  /\ pc = "Terminate"
  /\ tpos <= Len(TerminateOrder)
  /\ Goto("Terminate")
  /\ LET h == TerminateOrder[tpos][1]
         op == TerminateOrder[tpos][2]
     IN  /\ released' = Append(released, TerminateOrder[tpos])
         /\ IF op = "release"
            THEN /\ handle' = [handle EXCEPT ![h] = IF Live(h) THEN "released" ELSE @]
                 /\ UNCHANGED surfaceConfigured
            ELSE /\ surfaceConfigured' = FALSE
                 /\ UNCHANGED handle
  /\ tpos' = tpos + 1
  /\ UNCHANGED << mvars, fvars, uvars, bvars, cvars >>

\* glfwDestroyWindow, glfwTerminate, then main returns 0
Main_return0 ==
  /\ pc = "Terminate"
  /\ tpos > Len(TerminateOrder)
  /\ Goto("done")
  /\ mainReturn' = "return 0"
  /\ UNCHANGED << hvars, ops, initResult, stepFailed, fvars, uvars, bvars, cvars,
                  tvars >>

\* ---- undefined behaviour: the process may stop at the faulty call ----------
Crash ==
  /\ UBPending
  /\ Goto("crashed")
  /\ UNCHANGED << hvars, mvars, fvars, uvars, bvars, cvars, tvars >>

Next ==
  \/ Main_callInitialize
  \/ Initialize_createInstance
  \/ Initialize_getSurface
  \/ Initialize_requestAdapter
  \/ Initialize_getRequiredLimits
  \/ Initialize_requestDevice
  \/ Initialize_setUncapturedErrorCallback
  \/ Initialize_getQueue
  \/ Initialize_configureSurface
  \/ InitializePipeline_loadShaderModule
  \/ InitializePipeline_createBindGroupLayout
  \/ InitializePipeline_createPipelineLayout
  \/ InitializePipeline_createRenderPipeline
  \/ InitializeBuffers_loadGeometry
  \/ InitializeBuffers_pointBuffer
  \/ InitializeBuffers_indexBuffer
  \/ InitializeBuffers_uniformBuffer
  \/ InitializeBindGroups
  \/ Initialize_returnTrue
  \/ Main_IsRunning
  \/ Main_return1
  \/ MainLoop_writeBuffer
  \/ MainLoop_GetNextSurfaceTextureView
  \/ MainLoop_createCommandEncoder
  \/ MainLoop_beginRenderPass
  \/ MainLoop_drawIndexed
  \/ MainLoop_endRenderPass
  \/ MainLoop_finish
  \/ MainLoop_submit
  \/ MainLoop_present
  \/ Terminate_call
  \/ Terminate_release
  \/ Main_return0
  \/ Crash

Spec == Init /\ [][Next]_vars

TypeOK ==
  /\ handle \in [Handles -> HandleStates]
  /\ misuse \subseteq Handles
  /\ frames \in 0..MaxFrames
  /\ clock \in 0..MaxTime
  /\ mainReturn \in {"none", "return 0", "return 1"}
  /\ initResult \in {"none", "true", "false"}

\* ---- properties ------------------------------------------------------------

\* the steps of MainLoop after its first
InMainLoop ==
  pc \in {"L_acquire", "L_encoder", "L_begin", "L_draw", "L_end", "L_finish",
          "L_submit", "L_present"}

\* Initialize returned true and none of its steps failed
InitializeSucceeded == initResult = "true" /\ stepFailed = {}

\* the order main may perform the Application operations in
OpStep(q, ev) ==
  CASE q = "start" /\ ev = "Initialize" -> "initializing"
    [] q = "initializing" /\ ev = "Initialize=false" -> "failed"
    [] q = "initializing" /\ ev = "Initialize=true" -> "ready"
    [] q = "ready" /\ ev = "IsRunning=true" -> "running"
    [] q = "running" /\ ev = "MainLoop" -> "ready"
    [] q = "ready" /\ ev = "IsRunning=false" -> "stopping"
    [] q = "stopping" /\ ev = "Terminate" -> "terminated"
    [] OTHER -> "bad"

RECURSIVE RunOps(_)
RunOps(k) == IF k = 0 THEN "start" ELSE OpStep(RunOps(k - 1), ops[k])

\* C1: the operations main has performed are always a prefix of either
\* "Initialize returns false" or "Initialize returns true, then (IsRunning
\* returns true, MainLoop)*, then IsRunning returns false, then Terminate";
\* main returns 1 only at the end of the first and 0 only at the end of the
\* second, so MainLoop is never called before Initialize returned true nor
\* after Terminate.
C1_MainSequence ==
  /\ RunOps(Len(ops)) # "bad"
  /\ mainReturn = "return 1" => RunOps(Len(ops)) = "failed"
  /\ mainReturn = "return 0" => RunOps(Len(ops)) = "terminated"
  /\ RunOps(Len(ops)) = "failed" => pc \in {"M_return1", "done"}

C1_Witness ==
  /\ mainReturn = "return 0"
  /\ frames >= 1
  /\ Len(ops) = 4 + 2 * frames

\* C2: every long-lived handle is live (created and not yet released) whenever
\* a step of Initialize, MainLoop or Terminate passes it to an API call, and
\* the surface is configured whenever MainLoop acquires a texture from it.
C2_HandlesLiveWhenUsed ==
  /\ misuse \cap LongLived = {}
  /\ (InMainLoop /\ frame # << >>) => surfaceConfigured

Count(log, e) == Cardinality({i \in 1..Len(log) : log[i] = e})

Before(log, a, b) ==
  \A i \in 1..Len(log) : log[i] = b => \E j \in 1..(i - 1) : log[j] = a

DeviceChildren == LongLived \ {"device", "surface"}

\* C3: after a successful Initialize and any number of MainLoop calls,
\* Terminate releases each of the ten long-lived handles exactly once (none
\* stays live, none is released twice), the device after every object created
\* from it, and the surface only after it was unconfigured.
C3_TerminateReleasesAll ==
  InitializeSucceeded =>
    /\ \A h \in LongLived : Count(released, <<h, "release">>) <= 1
    /\ \A h \in DeviceChildren :
         Before(released, <<h, "release">>, <<"device", "release">>)
    /\ Before(released, <<"surface", "unconfigure">>, <<"surface", "release">>)
    /\ misuse = {}
    /\ mainReturn = "return 0" =>
         \A h \in LongLived :
           Count(released, <<h, "release">>) = 1 /\ handle[h] = "released"

C3_Witness ==
  /\ InitializeSucceeded
  /\ mainReturn = "return 0"
  /\ frames >= 1
  /\ Len(released) = 11

FrameEvents ==
  {"acquire", "beginRenderPass", "endRenderPass", "finish", "submit", "present"}

IsFrameEvent(e) == e \in FrameEvents

InFrame(e) == \E i \in 1..Len(frame) : frame[i] = e

\* C4: a MainLoop call that has returned submitted a command buffer and
\* presented the surface iff the surface texture status was Success; then its
\* events were, once each and in this order, acquire, begin render pass, end
\* render pass, finish, submit, present; otherwise it only acquired, with no
\* encoder, submit or present.  No call submits or presents without Success.
C4_FrameProtocol ==
  /\ (InFrame("createEncoder") \/ InFrame("submit") \/ InFrame("present"))
       => texStatus = "Success"
  /\ (frames > 0 /\ ~InMainLoop /\ pc # "crashed") =>
       IF texStatus = "Success"
       THEN SelectSeq(frame, IsFrameEvent) =
              << "acquire", "beginRenderPass", "endRenderPass", "finish", "submit",
                 "present" >>
       ELSE frame = << "acquire" >>

C4_WitnessSuccess ==
  /\ pc = "M_isRunning"
  /\ frames >= 1
  /\ texStatus = "Success"
  /\ InFrame("present")
  /\ misuse = {}

C6_UniformSizes ==
  initResult = "true" =>
    /\ bufSize.uniform = (4 + 1 + 3) * SizeofFloat
    /\ bufSize.uniform % 16 = 0
    /\ binding.size = bufSize.uniform
    /\ bindingLayout.minBindingSize = bufSize.uniform
    /\ binding.offset = 0
    /\ binding.offset + binding.size = bufSize.uniform
    /\ uniformData # << >> => Len(uniformData) = bufSize.uniform

C6_Witness ==
  /\ initResult = "true"
  /\ Live("uniformBuffer")
  /\ Live("bindGroup")
  /\ binding.size > 0

\* InitializeBuffers has sized the index buffer
IndexBufferSized ==
  pc \in {"B_uniform", "G_bindGroup", "I_return"} \/ initResult = "true"

\* C7: the index buffer size is the smallest multiple of 4 that is at least
\* 2*n bytes for n indices (2*n for even n, 2*n+2 for odd n), and the vertex
\* buffer size is 4*m for m floats, a multiple of 4.
C7_BufferSizesAligned ==
  IndexBufferSized =>
    /\ bufSize.index % 4 = 0
    /\ bufSize.index >= SizeofUint16 * indexCount
    /\ bufSize.index - 4 < SizeofUint16 * indexCount
    /\ indexCount % 2 = 0 => bufSize.index = 2 * indexCount
    /\ indexCount % 2 = 1 => bufSize.index = 2 * indexCount + 2
    /\ bufSize.point = 4 * pointCount
    /\ bufSize.point % 4 = 0

C7_WitnessOdd ==
  /\ IndexBufferSized
  /\ indexCount % 2 = 1
  /\ pointCount > 0

\* the call of Initialize is over: it returned, or the process exited in it
InitializeOver ==
  pc \in {"exited", "done", "M_return1", "M_isRunning", "M_terminate", "Terminate",
          "L_write"} \/ InMainLoop

\* C8: Initialize returns true only when every step succeeded, and whenever a
\* step failed it returns false to its caller.
C8_InitializeAllOrCatch ==
  /\ initResult = "true" => stepFailed = {}
  /\ (stepFailed # {} /\ InitializeOver) => initResult = "false"

UniformBuffersPerStage(stage) ==
  Cardinality({e \in {bindingLayout} : e.type = "Uniform" /\ stage \in e.visibility})

\* C9: the pipeline and bind group configuration stay within the limits
\* requested: 2 vertex attributes, 1 vertex buffer, a stride of 5 floats with
\* both attributes (offset 0 size 8, offset 8 size 12) inside it, 1 bind group
\* layout, 1 uniform buffer per stage and a uniform binding of
\* sizeof(MyUniforms).
C9_WithinLimits ==
  initResult = "true" =>
    /\ Len(pipelineCfg.vertexAttribs) = 2
    /\ Len(pipelineCfg.vertexAttribs) <= requiredLimits.maxVertexAttributes
    /\ pipelineCfg.bufferCount = 1
    /\ pipelineCfg.bufferCount <= requiredLimits.maxVertexBuffers
    /\ pipelineCfg.arrayStride = 5 * SizeofFloat
    /\ pipelineCfg.arrayStride <= requiredLimits.maxVertexBufferArrayStride
    /\ \A i \in 1..Len(pipelineCfg.vertexAttribs) :
         pipelineCfg.vertexAttribs[i].offset
           + VertexFormatSize(pipelineCfg.vertexAttribs[i].format)
           <= pipelineCfg.arrayStride
    /\ pipelineCfg.vertexAttribs[1].offset = 0
    /\ VertexFormatSize(pipelineCfg.vertexAttribs[1].format) = 8
    /\ pipelineCfg.vertexAttribs[2].offset = 8
    /\ VertexFormatSize(pipelineCfg.vertexAttribs[2].format) = 12
    /\ pipelineCfg.bindGroupLayoutCount <= requiredLimits.maxBindGroups
    /\ \A stage \in {"Vertex", "Fragment"} :
         UniformBuffersPerStage(stage) <= requiredLimits.maxUniformBuffersPerShaderStage
    /\ binding.size <= requiredLimits.maxUniformBufferBindingSize
    /\ bindingLayout.minBindingSize <= requiredLimits.maxUniformBufferBindingSize

C9_Witness ==
  /\ initResult = "true"
  /\ Live("pipeline")
  /\ Live("bindGroup")
  /\ requiredLimits.maxVertexAttributes > 0

\* C10: the uploads of InitializeBuffers read no more bytes than the vectors
\* hold: at most 2*n bytes of the n indices, exactly 4*m bytes of the m floats.
C10_UploadWithinVector ==
  /\ upload.indexRead <= upload.indexHeld
  /\ upload.pointRead = upload.pointHeld

====
